---------------------------- MODULE Spec2Model ----------------------------
(***************************************************************************)
(* Proxy worker supervisor of src-tauri/src/proxy_runner.rs:               *)
(* start_proxy_process_with_profile, stop_proxy_process and                *)
(* stop_all_proxy_processes, running concurrently with each other and      *)
(* with the detached worker processes, over the file-backed config store   *)
(* (crate::proxy_storage) and the PROXY_PROCESSES registry.                *)
(*                                                                         *)
(* An Option<T> is a sequence of length at most one: None is <<>> and      *)
(* Some(x) is <<x>>.  A String is a sequence; the empty string is <<>>.    *)
(***************************************************************************)
EXTENDS Integers, Sequences, FiniteSets, TLC

(* ------------------------------ bounds -------------------------------- *)
\* identifiers generate_proxy_id can hand out
MaxIds == 2
\* start calls made after Init (each takes one fresh identifier)
MaxStarts == 1
\* supervisor calls (start, stop, stop_all) running at the same time
MaxInFlight == 2
\* process ids the OS hands out (a pid is reused once its process is gone)
MaxPid == 2
\* TCP ports of 127.0.0.1
MaxPort == 2
\* polling budget of start (80 on unix, 150 on windows), scaled down
MaxAttempts == 2

Ids == 1..MaxIds
\* generate_proxy_id never repeats: the identifiers below FirstId were handed out
\* before Init and have left no record, no registry entry and no process
FirstId == MaxIds - MaxStarts + 1
\* an identifier generate_proxy_id never produced
UnknownId == 0
AllIds == Ids \cup {UnknownId}
Pids == 1..MaxPid
Ports == 1..MaxPort
\* port argument of start: None, which unwrap_or(0) turns into 0, or a pinned port
RequestedPorts == {0, 1}
\* caller 0 is the stop that stop_all runs on each record, caller 1 calls stop(id)
AllCaller == 0
Callers == {0, 1}

None == <<>>
Some(x) == <<x>>
IsSome(o) == Len(o) = 1
Unwrap(o) == o[1]

EmptyString == <<>>
\* format!("http://127.0.0.1:{}", port), written by the worker
Url(port) == <<"http://127.0.0.1:", port>>

VARIABLES
  store,      \* config store: AllIds -> Option<ProxyConfig>
  registry,   \* PROXY_PROCESSES: Ids -> Option<pid>
  nextId,     \* next identifier generate_proxy_id hands out
  procs,      \* OS process table: pid -> identifier of the worker running as pid, 0 if none
  wk,         \* per identifier: the worker process spawned for it
  st,         \* per identifier: the start call that generated it
  sc,         \* per caller: its stop_proxy_process call
  sa          \* the stop_all_proxy_processes call

vars == <<store, registry, nextId, procs, wk, st, sc, sa>>

(* ------------------------------ store ---------------------------------- *)
\* ProxyConfig::new(id, upstream, Some(local_port)): no pid, no local_url
NewConfig(id, port) ==
  [id |-> id, pid |-> None, local_port |-> Some(port), local_url |-> None]

get_proxy_config(s, id) == s[id]
save_proxy_config(s, rec) == [s EXCEPT ![rec.id] = Some(rec)]
delete_proxy_config(s, id) == [s EXCEPT ![id] = None]
\* the identifiers list_proxy_configs returns
list_proxy_configs(s) == {i \in Ids : IsSome(s[i])}
is_process_running(p, pid) == p[pid] # 0

(* ------------------------------ workers -------------------------------- *)
WorkerAlive(i) == wk[i].pc \in {"spawned", "bound", "written"}
\* TcpStream::connect(("127.0.0.1", port)) succeeds iff a live process listens there
ConnectOk(w, port) == \E i \in Ids : w[i].pc \in {"bound", "written"} /\ w[i].port = port
PortFree(port) == ~ConnectOk(wk, port)

InitWorker == [pc |-> "none", pid |-> 0, port |-> 0, snap |-> None]
\* hit: a stop has found the pid in the record of this start while the start was running
\* guard: the call holds the MutexGuard of PROXY_PROCESSES.lock()
InitStart == [pc |-> "idle", req |-> 0, pid |-> 0, attempts |-> 0, fetched |-> None,
              probe |-> None, result |-> None, err |-> "none", diag |-> None,
              hit |-> FALSE, guard |-> FALSE]
InitStop == [pc |-> "idle", id |-> UnknownId, saw |-> "absent", sent |-> None,
             stray |-> FALSE, log |-> <<>>, result |-> "none", again |-> FALSE,
             last |-> None, guard |-> FALSE]
InitStopAll == [pc |-> "idle", todo |-> {}, listed |-> {}, tried |-> {}, conc |-> FALSE,
                left |-> {}]

\* the supervisor calls that have started and not returned
Running ==
  Cardinality({i \in Ids : st[i].pc \notin {"idle", "ok", "err", "returned"}})
  + (IF sc[1].pc \in {"idle", "done"} THEN 0 ELSE 1)
  + (IF sa.pc \in {"idle", "done"} THEN 0 ELSE 1)

\* no call has just returned: the outcome of a returned start, stop or stop_all is taken by
\* its caller before the system takes its next step (nothing else reads it)
Settled ==
  /\ sa.pc # "done"
  /\ \A c \in Callers : sc[c].pc # "done"
  /\ \A i \in Ids : st[i].pc \notin {"ok", "err"}

\* no call is in a stretch of code without an await.  After its grace sleep a stop
\* runs from processes.remove to its return (lines 291-298), and stop_all runs from
\* the enumeration, or from the return of one stop, to the kill of the next stop or
\* to its own return (lines 306-310 and 266-277).  The runtime is cooperative, so
\* no other call of the supervisor runs inside such a stretch, and a step of a
\* worker process inside it leads where the same step before or after it leads.
Quiet ==
  /\ Settled
  /\ \A c \in Callers : sc[c].pc # "delete"
  /\ ~(sa.pc = "loop" /\ sc[AllCaller].pc = "idle")

Init ==
  /\ store = [i \in AllIds |-> None]
  /\ registry = [i \in Ids |-> None]
  /\ nextId = FirstId
  /\ procs = [p \in Pids |-> 0]
  /\ wk = [i \in Ids |-> InitWorker]
  /\ st = [i \in Ids |-> InitStart]
  /\ sc = [c \in Callers |-> InitStop]
  /\ sa = InitStopAll

\* the worker process of identifier i is gone: its pid and its port are released
Exit(w, i) == [w EXCEPT ![i] = [InitWorker EXCEPT !.pc = "dead"]]
Reap(p, pid) == [p EXCEPT ![pid] = 0]

\* proxy-worker start --id <id>: the worker locates its record, then binds its
\* listening socket: the pinned port, or for 0 a free port the OS picks (ports are
\* interchangeable, so the lowest free one stands for any of them)
WorkerBind(i) ==
  /\ Quiet
  /\ wk[i].pc = "spawned"
  /\ LET o == get_proxy_config(store, i)
         want == Unwrap(Unwrap(o).local_port)
         free == {p \in Ports : PortFree(p)}
         cand == IF ~IsSome(o) THEN {}
                 ELSE IF want = 0 THEN {p \in free : \A q \in free : p <= q}
                 ELSE {p \in {want} : PortFree(p)}
     IN IF cand = {}
          THEN /\ wk' = Exit(wk, i)
               /\ procs' = Reap(procs, wk[i].pid)
          ELSE /\ \E p \in cand :
                    wk' = [wk EXCEPT ![i].pc = "bound", ![i].port = p, ![i].snap = o]
               /\ UNCHANGED procs
  /\ UNCHANGED <<store, registry, nextId, st, sc, sa>>

\* the record the worker saves: the one it started from, with its port and url
WorkerRecord(w) ==
  [Unwrap(w.snap) EXCEPT !.local_port = Some(w.port), !.local_url = Some(Url(w.port))]

\* the worker writes its bound port and url back to its record, once
WorkerWrite(i) ==
  /\ Quiet
  /\ wk[i].pc = "bound"
  /\ store' = save_proxy_config(store, WorkerRecord(wk[i]))
  /\ wk' = [wk EXCEPT ![i].pc = "written", ![i].snap = None]
  /\ UNCHANGED <<registry, nextId, procs, st, sc, sa>>

\* the worker process dies on its own
WorkerDie(i) ==
  /\ Quiet
  /\ WorkerAlive(i)
  /\ wk' = Exit(wk, i)
  /\ procs' = Reap(procs, wk[i].pid)
  /\ UNCHANGED <<store, registry, nextId, st, sc, sa>>

(* ------------------------------ start ---------------------------------- *)
\* a start that drops the result of its first save and goes on to spawn
StartSaveUnchecked(req, ok) ==
  /\ Quiet
  /\ nextId <= MaxIds
  /\ Running < MaxInFlight
  /\ st[nextId].pc = "idle"
  /\ nextId' = nextId + 1
  /\ store' = IF ok THEN save_proxy_config(store, NewConfig(nextId, req)) ELSE store
  /\ st' = [st EXCEPT ![nextId].pc = "saved", ![nextId].req = req]
  /\ sa' = IF sa.pc = "loop" THEN [sa EXCEPT !.conc = TRUE] ELSE sa
  /\ UNCHANGED <<registry, procs, wk, sc>>

\* lines 23-33: generate the identifier and persist the initial record
StartSave(req, ok) ==
  /\ Quiet
  /\ nextId <= MaxIds
  /\ Running < MaxInFlight
  /\ st[nextId].pc = "idle"
  /\ nextId' = nextId + 1
  /\ IF ok
       THEN /\ store' = save_proxy_config(store, NewConfig(nextId, req))
            /\ st' = [st EXCEPT ![nextId].pc = "saved", ![nextId].req = req]
       ELSE /\ store' = store
            /\ st' = [st EXCEPT ![nextId].pc = "err", ![nextId].req = req,
                                ![nextId].err = "save"]
  /\ sa' = IF sa.pc = "loop" THEN [sa EXCEPT !.conc = TRUE] ELSE sa
  /\ UNCHANGED <<registry, procs, wk, sc>>

\* the pid the OS gives the next process: pids are interchangeable, so the lowest
\* one not in use stands for any of them (0 when the process table is full)
Lowest(S) == IF S = {} THEN 0 ELSE CHOOSE x \in S : \A y \in S : x <= y
FreePid(p) == Lowest({q \in Pids : ~is_process_running(p, q)})

\* a start call that has not returned yet
InFlight(r) == r.pc \notin {"idle", "ok", "err", "returned"}

\* a start that rolls its record back when the spawn fails
StartSpawnRollback(i) ==
  /\ Quiet
  /\ st[i].pc = "saved"
  /\ \/ /\ st' = [st EXCEPT ![i].pc = "err", ![i].err = "spawn"]
        /\ store' = delete_proxy_config(store, i)
        /\ UNCHANGED <<procs, wk, registry>>
     \/ \E p \in Pids :
          /\ p = FreePid(procs)
          /\ procs' = [procs EXCEPT ![p] = i]
          /\ wk' = [wk EXCEPT ![i].pc = "spawned", ![i].pid = p]
          /\ registry' = [registry EXCEPT ![i] = Some(p)]
          /\ st' = [st EXCEPT ![i].pc = "registered", ![i].pid = p]
          /\ store' = store
  /\ UNCHANGED <<nextId, sc, sa>>

\* a start that registers its pid variable before the spawn has set it
StartSpawnStalePid(i) ==
  /\ Quiet
  /\ st[i].pc = "saved"
  /\ \/ /\ st' = [st EXCEPT ![i].pc = "err", ![i].err = "spawn"]
        /\ UNCHANGED <<procs, wk, registry>>
     \/ \E p \in Pids :
          /\ p = FreePid(procs)
          /\ procs' = [procs EXCEPT ![p] = i]
          /\ wk' = [wk EXCEPT ![i].pc = "spawned", ![i].pid = p]
          /\ registry' = [registry EXCEPT ![i] = Some(st[i].pid)]
          /\ st' = [st EXCEPT ![i].pc = "registered", ![i].pid = p]
  /\ UNCHANGED <<store, nextId, sc, sa>>

\* lines 44-94 (114-158): cmd.spawn()? fails, or the OS starts the worker as a free
\* pid and processes.insert(id, pid) runs under the registry lock
StartSpawn(i) ==
  /\ Quiet
  /\ st[i].pc = "saved"
  /\ \/ /\ st' = [st EXCEPT ![i].pc = "err", ![i].err = "spawn"]
        /\ UNCHANGED <<procs, wk, registry>>
     \/ \E p \in Pids :
          /\ p = FreePid(procs)
          /\ procs' = [procs EXCEPT ![p] = i]
          /\ wk' = [wk EXCEPT ![i].pc = "spawned", ![i].pid = p]
          /\ registry' = [registry EXCEPT ![i] = Some(p)]
          /\ st' = [st EXCEPT ![i].pc = "registered", ![i].pid = p]
  /\ UNCHANGED <<store, nextId, sc, sa>>

\* lines 97-98 (161-162): config.clone() with pid = Some(pid)
ConfigWithPid(i, req, pid) == [NewConfig(i, req) EXCEPT !.pid = Some(pid)]

\* a start that drops the result of the re-persist and goes on to poll
StartPersistUnchecked(i, ok) ==
  /\ Quiet
  /\ st[i].pc = "registered"
  /\ store' = IF ok THEN save_proxy_config(store, ConfigWithPid(i, st[i].req, st[i].pid))
                    ELSE store
  /\ st' = [st EXCEPT ![i].pc = "polling", ![i].req = 0]
  /\ UNCHANGED <<registry, nextId, procs, wk, sc, sa>>

\* lines 96-99 (160-163): save_proxy_config(&config_with_pid)?
StartPersist(i, ok) ==
  /\ Quiet
  /\ st[i].pc = "registered"
  /\ IF ok
       THEN /\ store' = save_proxy_config(store, ConfigWithPid(i, st[i].req, st[i].pid))
            /\ st' = [st EXCEPT ![i].pc = "polling", ![i].req = 0]
       ELSE /\ store' = store
            /\ st' = [st EXCEPT ![i].pc = "err", ![i].err = "persist"]
  /\ UNCHANGED <<registry, nextId, procs, wk, sc, sa>>

\* a poller that forgets to look at local_url
ReadyFieldsNoUrl(o) ==
  /\ IsSome(o)
  /\ IsSome(Unwrap(o).local_port)

\* lines 187-191: the record is there, local_url is Some and non-empty, local_port is Some
ReadyFields(o) ==
  /\ IsSome(o)
  /\ IsSome(Unwrap(o).local_url)
  /\ Unwrap(Unwrap(o).local_url) # EmptyString
  /\ IsSome(Unwrap(o).local_port)

(* --------------------------- worker log file --------------------------- *)
\* the number of log lines the timeout error quotes: take(10)
TailCount == 10

\* /tmp/foxia-proxy-<id>.log as the timeout path finds it: not there, there and not
\* readable (read_to_string fails), or there with its lines
NoLogFile == [exists |-> FALSE, readable |-> FALSE, lines |-> <<>>]
UnreadableLog == [exists |-> TRUE, readable |-> FALSE, lines |-> <<>>]
ReadableLog(lines) == [exists |-> TRUE, readable |-> TRUE, lines |-> lines]
\* the log in good order: the file of line 63 with the lines the worker has written
\* to its stderr, their number one more than the quote takes; a line is its number
WrittenLog == ReadableLog([k \in 1..(TailCount + 1) |-> k])
\* the log in every condition
LogFiles == {NoLogFile, UnreadableLog, ReadableLog(<<>>), WrittenLog}

\* .rev() and .take(n) of an iterator
Rev(s) == [k \in 1..Len(s) |-> s[Len(s) + 1 - k]]
Take(s, n) == SubSeq(s, 1, IF Len(s) < n THEN Len(s) ELSE n)

\* a quote of the first lines of the log
LastLinesFromTop(lines) == Take(lines, TailCount)

\* lines 228-235: lines.iter().rev().take(10).rev()
LastLines(lines) == Rev(Take(Rev(lines), TailCount))

\* a log reader that unwraps the result of read_to_string
LogContentUnwrap(f) ==
  IF f.exists
    THEN IF f.readable THEN [kind |-> "lines", lines |-> LastLines(f.lines)]
                       ELSE [kind |-> "panic", lines |-> <<>>]
    ELSE [kind |-> "not found", lines |-> <<>>]

\* lines 225-244: log_content, the part of the message that stands for the log
LogContent(f) ==
  IF f.exists
    THEN IF f.readable THEN [kind |-> "lines", lines |-> LastLines(f.lines)]
                       ELSE [kind |-> "failed to read", lines |-> <<>>]
    ELSE [kind |-> "not found", lines |-> <<>>]

\* a timeout error that names the identifier only when the record is found
TimeoutErrorNoId(o, i, p, f) ==
  IF IsSome(o)
    THEN [id |-> Unwrap(o).id, found |-> TRUE,
          running |-> IF IsSome(Unwrap(o).pid)
                        THEN is_process_running(p, Unwrap(Unwrap(o).pid)) ELSE FALSE,
          log |-> Some(LogContent(f)), file |-> f]
    ELSE [id |-> UnknownId, found |-> FALSE, running |-> FALSE, log |-> None, file |-> f]

\* lines 215-260: the timeout error, built from one more get_proxy_config: with the
\* record, its id, is_process_running of its pid and the log content; without the
\* record, the id alone.  file is the log file as it is at that moment.
TimeoutError(o, i, p, f) ==
  IF IsSome(o)
    THEN [id |-> Unwrap(o).id, found |-> TRUE,
          running |-> IF IsSome(Unwrap(o).pid)
                        THEN is_process_running(p, Unwrap(Unwrap(o).pid)) ELSE FALSE,
          log |-> Some(LogContent(f)), file |-> f]
    ELSE [id |-> i, found |-> FALSE, running |-> FALSE, log |-> None, file |-> f]

\* a poller with one check too many: attempts > max_attempts
NotReadyOneMore(r, s, p, i, f) ==
  LET a == r.attempts + 1
  IN IF a > MaxAttempts
       THEN [r EXCEPT !.attempts = a, !.pc = "err", !.err = "timeout", !.fetched = None,
                      !.probe = None,
                      !.diag = Some(TimeoutError(get_proxy_config(s, i), i, p, f))]
       ELSE [r EXCEPT !.attempts = a, !.pc = "polling", !.fetched = None, !.probe = None]

\* lines 212-214: attempts += 1; with the budget used up, start returns the timeout error
NotReady(r, s, p, i, f) ==
  LET a == r.attempts + 1
  IN IF a >= MaxAttempts
       THEN [r EXCEPT !.attempts = a, !.pc = "err", !.err = "timeout", !.fetched = None,
                      !.probe = None,
                      !.diag = Some(TimeoutError(get_proxy_config(s, i), i, p, f))]
       ELSE [r EXCEPT !.attempts = a, !.pc = "polling", !.fetched = None, !.probe = None]

\* a poller that returns the record whatever the connect attempt gave
PollResultAnyway(r, connected) ==
  [r EXCEPT !.pc = "ok", !.result = r.fetched, !.fetched = None]

\* lines 193-206: the outcome of the connect; Ok(Ok(_)) returns the fetched record
PollResult(r, connected) ==
  IF connected THEN [r EXCEPT !.pc = "ok", !.result = r.fetched, !.fetched = None] ELSE r

\* a poller that cleans up after a timeout: it drops the registry entry and the record
StartPollCleanup(i, f) ==
  /\ Quiet
  /\ st[i].pc = "polling"
  /\ LET o == get_proxy_config(store, i)
         port == Unwrap(Unwrap(o).local_port)
         connected == ConnectOk(wk, port)
         r == PollResult([st[i] EXCEPT !.fetched = o,
                                       !.probe = Some([port |-> port, ok |-> connected])],
                         connected)
     IN st' = [st EXCEPT ![i] =
                 IF ~ReadyFields(o) THEN NotReady(st[i], store, procs, i, f)
                 ELSE IF r.pc = "ok" THEN r
                 ELSE NotReady(r, store, procs, i, f)]
  /\ registry' = IF st'[i].pc = "err" THEN [registry EXCEPT ![i] = None] ELSE registry
  /\ store' = IF st'[i].pc = "err" THEN delete_proxy_config(store, i) ELSE store
  /\ UNCHANGED <<nextId, procs, wk, sc, sa>>

\* a poller that saves its record again when it finds the record missing
StartPollResave(i, f) ==
  /\ Quiet
  /\ st[i].pc = "polling"
  /\ LET o == get_proxy_config(store, i)
         port == Unwrap(Unwrap(o).local_port)
         connected == ConnectOk(wk, port)
         r == PollResult([st[i] EXCEPT !.fetched = o,
                                       !.probe = Some([port |-> port, ok |-> connected])],
                         connected)
     IN st' = [st EXCEPT ![i] =
                 IF ~ReadyFields(o) THEN NotReady(st[i], store, procs, i, f)
                 ELSE IF r.pc = "ok" THEN r
                 ELSE NotReady(r, store, procs, i, f)]
  /\ store' = IF IsSome(get_proxy_config(store, i)) THEN store
              ELSE save_proxy_config(store, ConfigWithPid(i, 0, st[i].pid))
  /\ UNCHANGED <<registry, nextId, procs, wk, sc, sa>>

\* lines 183-213, one poll cycle: sleep, re-fetch the record, look at its fields and,
\* with the fields there, connect to the fetched port; f is the log file as the
\* timeout path would find it
StartPoll(i, f) ==
  /\ Quiet
  /\ st[i].pc = "polling"
  /\ LET o == get_proxy_config(store, i)
         port == Unwrap(Unwrap(o).local_port)
         connected == ConnectOk(wk, port)
         r == PollResult([st[i] EXCEPT !.fetched = o,
                                       !.probe = Some([port |-> port, ok |-> connected])],
                         connected)
     IN st' = [st EXCEPT ![i] =
                 IF ~ReadyFields(o) THEN NotReady(st[i], store, procs, i, f)
                 ELSE IF r.pc = "ok" THEN r
                 ELSE NotReady(r, store, procs, i, f)]
  /\ UNCHANGED <<store, registry, nextId, procs, wk, sc, sa>>

\* the caller of start has its Result: the record (line 201) or the error
StartReturned(i) ==
  /\ st[i].pc \in {"ok", "err"}
  /\ st' = [st EXCEPT ![i] = [InitStart EXCEPT !.pc = "returned"]]
  /\ UNCHANGED <<store, registry, nextId, procs, wk, sc, sa>>

(* ------------------------------ stop ----------------------------------- *)
\* lines 266-269: what the lookup of stop finds
Lookup(o) ==
  IF ~IsSome(o) THEN "absent"
  ELSE IF ~IsSome(Unwrap(o).pid) THEN "nopid"
  ELSE "pid"

\* a stop that reports an unknown identifier as an error
NotStoppedErr(saw) == IF saw = "absent" THEN "Err" ELSE "Ok(false)"

\* line 302: nothing was stopped
NotStopped(saw) == "Ok(false)"

\* a stop that takes the pid to signal from the registry, not from the record
StopCallByRegistry(c, id, dies) ==
  LET o == get_proxy_config(store, id)
      tracked == id \in Ids /\ IsSome(registry[id])
      pid == Unwrap(registry[id])
      victim == procs[pid]
      again == sc[c].last = Some(id) /\ id \in Ids
  IN IF tracked
       THEN /\ sc' = [sc EXCEPT ![c] = [InitStop EXCEPT !.pc = "grace", !.id = id,
                                          !.saw = Lookup(o), !.sent = Some(pid),
                                          !.last = None,
                                          !.stray = (victim \notin {0, id}),
                                          !.log = <<"signal">>, !.again = again]]
            /\ IF victim # 0 /\ dies
                 THEN /\ wk' = Exit(wk, victim)
                      /\ procs' = Reap(procs, pid)
                 ELSE UNCHANGED <<wk, procs>>
            /\ st' = IF InFlight(st[id]) THEN [st EXCEPT ![id].hit = TRUE] ELSE st
       ELSE /\ sc' = [sc EXCEPT ![c] = [InitStop EXCEPT !.pc = "done", !.id = id,
                                          !.saw = Lookup(o),
                                          !.result = NotStopped(Lookup(o)),
                                          !.again = again]]
            /\ UNCHANGED <<wk, procs, st>>

\* lines 266-288 and 302: get the record; with a pid in it, run kill -TERM (taskkill
\* /F) on that pid and start the grace sleep; otherwise return Ok(false).
\* The signalled process, if there is one, exits or lives on.
StopCall(c, id, dies) ==
  LET o == get_proxy_config(store, id)
      saw == Lookup(o)
      pid == Unwrap(Unwrap(o).pid)
      victim == procs[pid]
      again == sc[c].last = Some(id) /\ id \in Ids
  IN IF saw = "pid"
       THEN /\ sc' = [sc EXCEPT ![c] = [InitStop EXCEPT !.pc = "grace", !.id = id,
                                          !.saw = saw, !.sent = Some(pid),
                                          !.last = None,
                                          !.stray = (victim \notin {0, id}),
                                          !.log = <<"signal">>, !.again = again]]
            /\ IF victim # 0 /\ dies
                 THEN /\ wk' = Exit(wk, victim)
                      /\ procs' = Reap(procs, pid)
                 ELSE UNCHANGED <<wk, procs>>
            /\ st' = IF InFlight(st[id]) THEN [st EXCEPT ![id].hit = TRUE] ELSE st
       ELSE /\ sc' = [sc EXCEPT ![c] = [InitStop EXCEPT !.pc = "done", !.id = id,
                                          !.saw = saw, !.result = NotStopped(saw),
                                          !.again = again]]
            /\ UNCHANGED <<wk, procs, st>>

\* stop_proxy_process(id) called on its own, for an identifier start has generated
\* or for one that never existed
StopBegin(c, id, dies) ==
  /\ Quiet
  /\ c # AllCaller
  /\ sc[c].pc = "idle"
  /\ Running < MaxInFlight
  /\ id \in Ids => st[id].pc # "idle"
  /\ StopCall(c, id, dies)
  /\ UNCHANGED <<store, registry, nextId, sa>>

\* a stop that deletes the record first and cleans the registry afterwards
StopRemoveLate(c) ==
  /\ Quiet
  /\ sc[c].pc = "grace"
  /\ store' = delete_proxy_config(store, sc[c].id)
  /\ sc' = [sc EXCEPT ![c].pc = "delete", ![c].log = sc[c].log \o <<"grace", "remove">>]
  /\ UNCHANGED <<registry, nextId, procs, wk, st, sa>>

\* lines 288-294: the grace sleep is over; processes.remove(id) under the registry lock
StopRemove(c) ==
  /\ Quiet
  /\ sc[c].pc = "grace"
  /\ registry' = [registry EXCEPT ![sc[c].id] = None]
  /\ sc' = [sc EXCEPT ![c].pc = "delete", ![c].log = sc[c].log \o <<"grace", "remove">>]
  /\ UNCHANGED <<store, nextId, procs, wk, st, sa>>

\* a stop that gives up with an error when the signalled process is still there
StopDeleteIfDead(c) ==
  /\ Settled
  /\ sc[c].pc = "delete"
  /\ IF is_process_running(procs, Unwrap(sc[c].sent))
       THEN /\ store' = store
            /\ sc' = [sc EXCEPT ![c].pc = "done", ![c].result = "Err"]
       ELSE /\ store' = delete_proxy_config(store, sc[c].id)
            /\ sc' = [sc EXCEPT ![c].pc = "done", ![c].result = "Ok(true)",
                                ![c].log = sc[c].log \o <<"delete">>]
  /\ UNCHANGED <<registry, nextId, procs, wk, st, sa>>

\* lines 296-298: delete the record and return Ok(true)
StopDelete(c) ==
  /\ Settled
  /\ sc[c].pc = "delete"
  /\ store' = delete_proxy_config(store, sc[c].id)
  /\ sc' = [sc EXCEPT ![c].pc = "done", ![c].result = "Ok(true)",
                      ![c].log = sc[c].log \o <<"delete">>]
  /\ UNCHANGED <<registry, nextId, procs, wk, st, sa>>

\* the caller has the Ok(bool) of its stop (for caller 0: line 308, let _ =)
StopReturned(c) ==
  /\ sc[c].pc = "done"
  /\ sc' = [sc EXCEPT ![c] = InitStop]
  /\ UNCHANGED <<store, registry, nextId, procs, wk, st, sa>>

\* a caller of stop(id) that is going to call stop with the same identifier again
StopReturnedOnce(c) ==
  /\ c # AllCaller
  /\ sc[c].pc = "done"
  /\ sc[c].id \in Ids
  /\ sc' = [sc EXCEPT ![c] = [InitStop EXCEPT !.last = Some(sc[c].id)]]
  /\ UNCHANGED <<store, registry, nextId, procs, wk, st, sa>>

\* a caller of start whose call timed out and who is going to abandon the start with
\* stop(id): it keeps the error and the pid of the worker the call had spawned
StartReturnedTimeout(i) ==
  /\ st[i].pc = "err"
  /\ st[i].err = "timeout"
  /\ sc[1].pc = "idle"
  /\ st' = [st EXCEPT ![i] = [InitStart EXCEPT !.pc = "returned", !.err = "timeout",
                                               !.pid = st[i].pid]]
  /\ sc' = [sc EXCEPT ![1] = [InitStop EXCEPT !.last = Some(i)]]
  /\ UNCHANGED <<store, registry, nextId, procs, wk, sa>>

(* ------------------------------ stop_all ------------------------------- *)
\* line 306: enumerate the persisted records
StopAllList ==
  /\ Quiet
  /\ sa.pc = "idle"
  /\ Running < MaxInFlight
  /\ sa' = [InitStopAll EXCEPT !.pc = "loop", !.todo = list_proxy_configs(store),
                               !.listed = list_proxy_configs(store),
                               !.conc = \E i \in Ids : InFlight(st[i])]
  /\ UNCHANGED <<store, registry, nextId, procs, wk, st, sc>>

\* lines 307-309: stop_proxy_process(&config.id) on the next record of the list; the
\* list comes in any order, so the next record is any of those not yet visited
StopAllNext(id, dies) ==
  /\ Settled
  /\ sa.pc = "loop"
  /\ sc[AllCaller].pc = "idle"
  /\ id \in sa.todo
  /\ StopCall(AllCaller, id, dies)
  /\ sa' = [sa EXCEPT !.todo = sa.todo \ {id}, !.tried = sa.tried \cup {id}]
  /\ UNCHANGED <<store, registry, nextId>>

\* a stop_all that may give up before the end of its list
StopAllReturnEarly ==
  /\ Settled
  /\ sa.pc = "loop"
  /\ sc[AllCaller].pc = "idle"
  /\ sa' = [sa EXCEPT !.pc = "done", !.left = list_proxy_configs(store)]
  /\ UNCHANGED <<store, registry, nextId, procs, wk, st, sc>>

\* line 310: the list is exhausted, Ok(())
StopAllReturn ==
  /\ Settled
  /\ sa.pc = "loop"
  /\ sc[AllCaller].pc = "idle"
  /\ sa.todo = {}
  /\ sa' = [sa EXCEPT !.pc = "done", !.left = list_proxy_configs(store)]
  /\ UNCHANGED <<store, registry, nextId, procs, wk, st, sc>>

\* the caller of stop_all has its Ok(())
StopAllReturned ==
  /\ sa.pc = "done"
  /\ sa' = InitStopAll
  /\ UNCHANGED <<store, registry, nextId, procs, wk, st, sc>>

(* ------------------------------ registry lock ------------------------- *)
\* The actions above take and release the lock of PROXY_PROCESSES inside one step.
\* The actions of this section take the same code apart: the lock() call, which
\* waits until no other call holds the guard, and the block that ends with the drop
\* of the guard.

\* no call holds the guard
LockFree ==
  /\ \A i \in Ids : ~st[i].guard
  /\ \A c \in Callers : ~sc[c].guard

\* lines 44-88 (114-144): cmd.spawn()? fails, or the OS starts the worker as a free pid
StartSpawnChild(i) ==
  /\ Quiet
  /\ st[i].pc = "saved"
  /\ \/ /\ st' = [st EXCEPT ![i].pc = "err", ![i].err = "spawn"]
        /\ UNCHANGED <<procs, wk>>
     \/ \E p \in Pids :
          /\ p = FreePid(procs)
          /\ procs' = [procs EXCEPT ![p] = i]
          /\ wk' = [wk EXCEPT ![i].pc = "spawned", ![i].pid = p]
          /\ st' = [st EXCEPT ![i].pc = "spawned", ![i].pid = p]
  /\ UNCHANGED <<store, registry, nextId, sc, sa>>

\* line 92 (156): PROXY_PROCESSES.lock() returns the guard
StartLock(i) ==
  /\ Quiet
  /\ st[i].pc = "spawned"
  /\ LockFree
  /\ st' = [st EXCEPT ![i].pc = "locked", ![i].guard = TRUE]
  /\ UNCHANGED <<store, registry, nextId, procs, wk, sc, sa>>

\* a start that keeps the guard in a variable of the function body
StartInsertHold(i) ==
  /\ st[i].pc = "locked"
  /\ registry' = [registry EXCEPT ![i] = Some(st[i].pid)]
  /\ st' = [st EXCEPT ![i].pc = "registered"]
  /\ UNCHANGED <<store, nextId, procs, wk, sc, sa>>

\* lines 93-94 (157-158): processes.insert(id, pid); the block ends, the guard drops
StartInsert(i) ==
  /\ st[i].pc = "locked"
  /\ registry' = [registry EXCEPT ![i] = Some(st[i].pid)]
  /\ st' = [st EXCEPT ![i].pc = "registered", ![i].guard = FALSE]
  /\ UNCHANGED <<store, nextId, procs, wk, sc, sa>>

\* lines 288-292: the grace sleep is over; PROXY_PROCESSES.lock() returns the guard
StopLock(c) ==
  /\ Quiet
  /\ sc[c].pc = "grace"
  /\ LockFree
  /\ sc' = [sc EXCEPT ![c].pc = "locked", ![c].guard = TRUE,
                      ![c].log = sc[c].log \o <<"grace">>]
  /\ UNCHANGED <<store, registry, nextId, procs, wk, st, sa>>

\* lines 293-294: processes.remove(id); the block ends, the guard drops
StopUnlock(c) ==
  /\ sc[c].pc = "locked"
  /\ registry' = [registry EXCEPT ![sc[c].id] = None]
  /\ sc' = [sc EXCEPT ![c].pc = "delete", ![c].guard = FALSE,
                      ![c].log = sc[c].log \o <<"remove">>]
  /\ UNCHANGED <<store, nextId, procs, wk, st, sa>>

Next ==
  \/ \E i \in Ids : WorkerBind(i)
  \/ \E i \in Ids : WorkerWrite(i)
  \/ \E i \in Ids : WorkerDie(i)
  \/ \E req \in RequestedPorts, ok \in BOOLEAN : StartSave(req, ok)
  \/ \E i \in Ids : StartSpawn(i)
  \/ \E i \in Ids, ok \in BOOLEAN : StartPersist(i, ok)
  \/ \E i \in Ids, f \in LogFiles : StartPoll(i, f)
  \/ \E i \in Ids : StartReturned(i)
  \/ \E id \in AllIds, dies \in BOOLEAN : StopBegin(1, id, dies)
  \/ \E c \in Callers : StopRemove(c)
  \/ \E c \in Callers : StopDelete(c)
  \/ StopAllList
  \/ \E id \in Ids, dies \in BOOLEAN : StopAllNext(id, dies)
  \/ StopAllReturn
  \/ \E c \in Callers : StopReturned(c)
  \/ StopAllReturned

Spec == Init /\ [][Next]_vars


\* the same system with a caller that calls stop(id) twice in succession
NextTwice ==
  \/ Next
  \/ \E c \in Callers : StopReturnedOnce(c)

SpecTwice == Init /\ [][NextTwice]_vars

\* the same system with a caller that calls stop(id) after its start timed out
NextAbandon ==
  \/ Next
  \/ \E i \in Ids : StartReturnedTimeout(i)

SpecAbandon == Init /\ [][NextAbandon]_vars

\* start calls on their own, with their workers, under the scheduling of the async
\* runtime and the OS: a start call that can take its next step takes it (its
\* sleeps end, its store and socket calls return), and a call that has its result
\* returns it
NextStart ==
  \/ \E i \in Ids : WorkerBind(i)
  \/ \E i \in Ids : WorkerWrite(i)
  \/ \E i \in Ids : WorkerDie(i)
  \/ \E req \in RequestedPorts, ok \in BOOLEAN : StartSave(req, ok)
  \/ \E i \in Ids : StartSpawn(i)
  \/ \E i \in Ids, ok \in BOOLEAN : StartPersist(i, ok)
  \/ \E i \in Ids, f \in LogFiles : StartPoll(i, f)
  \/ \E i \in Ids : StartReturned(i)

\* the identifiers a start call can take after Init
FreshIds == FirstId..MaxIds

Fairness ==
  \A i \in FreshIds :
    /\ SF_vars(StartSpawn(i))
    /\ SF_vars(\E ok \in BOOLEAN : StartPersist(i, ok))
    /\ SF_vars(\E f \in LogFiles : StartPoll(i, f))
    /\ WF_vars(StartReturned(i))

SpecStart == Init /\ [][NextStart]_vars /\ Fairness

\* a fresh installation: every identifier is still to be handed out, so MaxIds
\* start calls can be made
InitPair ==
  /\ store = [i \in AllIds |-> None]
  /\ registry = [i \in Ids |-> None]
  /\ nextId = 1
  /\ procs = [p \in Pids |-> 0]
  /\ wk = [i \in Ids |-> InitWorker]
  /\ st = [i \in Ids |-> InitStart]
  /\ sc = [c \in Callers |-> InitStop]
  /\ sa = InitStopAll

\* start calls for several identifiers, their workers and stop(id) calls
NextPair ==
  \/ NextStart
  \/ \E id \in AllIds, dies \in BOOLEAN : StopBegin(1, id, dies)
  \/ \E c \in Callers : StopRemove(c)
  \/ \E c \in Callers : StopDelete(c)
  \/ \E c \in Callers : StopReturned(c)

SpecPair == InitPair /\ [][NextPair]_vars

\* the supervisor calls with the lock of the registry taken apart; a call that can
\* take its next step takes it (the runtime resumes a task whose sleep is over, and
\* a thread that holds or can take the lock runs on).  The workers stay silent, and
\* the requested port and the log file, which the lock has nothing to do with, are
\* fixed: port None and no log file
NextLock ==
  \/ \E ok \in BOOLEAN : StartSave(0, ok)
  \/ \E i \in Ids : StartSpawnChild(i)
  \/ \E i \in Ids : StartLock(i)
  \/ \E i \in Ids : StartInsert(i)
  \/ \E i \in Ids, ok \in BOOLEAN : StartPersist(i, ok)
  \/ \E i \in Ids : StartPoll(i, NoLogFile)
  \/ \E i \in Ids : StartReturned(i)
  \/ \E id \in AllIds, dies \in BOOLEAN : StopBegin(1, id, dies)
  \/ \E c \in Callers : StopLock(c)
  \/ \E c \in Callers : StopUnlock(c)
  \/ \E c \in Callers : StopDelete(c)
  \/ \E c \in Callers : StopReturned(c)
  \/ StopAllList
  \/ \E id \in Ids, dies \in BOOLEAN : StopAllNext(id, dies)
  \/ StopAllReturn
  \/ StopAllReturned

FairnessLock ==
  /\ \A i \in FreshIds :
       /\ SF_vars(StartLock(i))
       /\ WF_vars(StartInsert(i))
       /\ WF_vars(StartReturned(i))
  /\ \A c \in Callers :
       /\ SF_vars(StopLock(c))
       /\ WF_vars(StopUnlock(c))
       /\ WF_vars(StopDelete(c))
       /\ WF_vars(StopReturned(c))
  /\ WF_vars(\E id \in Ids, dies \in BOOLEAN : StopAllNext(id, dies))
  /\ WF_vars(StopAllReturn)
  /\ WF_vars(StopAllReturned)

SpecLock == Init /\ [][NextLock]_vars /\ FairnessLock

(* ------------------------------ properties ----------------------------- *)
Populated(rec) ==
  /\ IsSome(rec.local_url)
  /\ Unwrap(rec.local_url) # EmptyString
  /\ IsSome(rec.local_port)
  /\ Unwrap(rec.local_port) \in Ports

\* C1: whenever start returns success, the returned record has a non-empty
\* local_url and a bound port.
C1_SuccessHasUrlAndPort ==
  \A i \in Ids : st[i].pc = "ok" =>
    IsSome(st[i].result) /\ Populated(Unwrap(st[i].result))

\* a start has returned the record its worker wrote
C1_Witness ==
  \E i \in Ids : st[i].pc = "ok" /\ wk[i].pc = "written"
                 /\ Unwrap(st[i].result).local_url = Some(Url(wk[i].port))

\* C2: start returns success only in a poll cycle whose connect to the port of the
\* record fetched in that cycle succeeded: the returned record has its fields, the
\* cycle probed the port of that record, the probe connected, and a live process is
\* listening on that port as start returns.
C2_SuccessOnlyAfterConnect ==
  \A i \in Ids : st[i].pc = "ok" =>
    /\ ReadyFields(st[i].result)
    /\ IsSome(st[i].probe)
    /\ Unwrap(st[i].probe).ok
    /\ Unwrap(st[i].probe).port = Unwrap(Unwrap(st[i].result).local_port)
    /\ ConnectOk(wk, Unwrap(Unwrap(st[i].result).local_port))

\* a start has succeeded on a later cycle, after one that was not ready
C2_Witness ==
  \E i \in Ids : st[i].pc = "ok" /\ st[i].attempts > 0 /\ IsSome(st[i].probe)

\* C3: a worker that has written its port and url by the last poll of start and is
\* still listening never sees its start end in a readiness timeout (the timeout is
\* returned in the step of the last poll, so a worker that is in "written" then
\* wrote before that poll).
C3_WrittenWorkerIsFound ==
  \A i \in Ids :
    ~(st[i].pc = "err" /\ st[i].err = "timeout" /\ wk[i].pc = "written")

\* C4: a stop that finds no record returns Ok(false) in that one step, sends no
\* signal and leaves the store, the registry and every process as they were.
C4_StopOfAbsentIsNoOp ==
  [][\A c \in Callers :
       (sc[c].pc # "done" /\ sc'[c].pc = "done" /\ sc'[c].saw = "absent") =>
         /\ sc'[c].result = "Ok(false)"
         /\ sc'[c].sent = None
         /\ sc'[c].log = <<>>
         /\ store' = store
         /\ registry' = registry
         /\ procs' = procs
         /\ wk' = wk]_vars

\* stop(id) has returned for an identifier that never existed
C4_Witness ==
  sc[1].pc = "done" /\ sc[1].id = UnknownId /\ sc[1].saw = "absent"
  /\ sc[1].result = "Ok(false)"

\* C5: when stop(id) returns, the store has no record for id.
C5_NoRecordAfterStop ==
  \A c \in Callers : sc[c].pc = "done" => ~IsSome(get_proxy_config(store, sc[c].id))

\* C6: when stop_all returns and no start ran during it, the store is empty.
C6_StopAllLeavesNothing ==
  (sa.pc = "done" /\ ~sa.conc) => sa.left = {}

\* C7: of two stop calls for one identifier, at most one tears the worker down.
C7_OneTeardownPerId ==
  \A c, d \in Callers :
    (c # d /\ sc[c].pc \in {"grace", "delete"} /\ sc[d].pc \in {"grace", "delete"})
      => sc[c].id # sc[d].id

\* C8: a stop(id) that follows a returned stop(id) of the same caller returns
\* Ok(false) and does nothing.
C8_SecondStopDoesNothing ==
  \A c \in Callers : (sc[c].pc = "done" /\ sc[c].again) =>
    sc[c].result = "Ok(false)" /\ sc[c].sent = None /\ sc[c].log = <<>>

\* C9: a record leaves the store only in the delete step of a stop of that
\* identifier, which has by then signalled the pid it found in the record (the pid
\* the record still carries), slept the grace period and cleaned the registry.
C9_DeleteAfterSignalGraceRemove ==
  [][\A i \in Ids :
       (IsSome(store[i]) /\ ~IsSome(store'[i])) =>
         \E c \in Callers :
           /\ sc[c].id = i
           /\ sc[c].pc = "delete"
           /\ sc[c].log = <<"signal", "grace", "remove">>
           /\ sc'[c].log = <<"signal", "grace", "remove", "delete">>
           /\ IsSome(sc[c].sent)
           /\ IsSome(Unwrap(store[i]).pid) => Unwrap(store[i]).pid = sc[c].sent
           /\ ~IsSome(registry[i])]_vars

\* a stop has deleted the record whose pid it signalled
C9_Witness ==
  \E c \in Callers : sc[c].pc = "done" /\ sc[c].log = <<"signal", "grace", "remove", "delete">>
                     /\ ~IsSome(store[sc[c].id])

\* C10: a stop that found a pid in the record returns Ok(true) with the record
\* deleted, whether the signalled process is gone or still running.
C10_StopReturnsTrueRegardless ==
  \A c \in Callers : (sc[c].pc = "done" /\ sc[c].saw = "pid") =>
    sc[c].result = "Ok(true)" /\ ~IsSome(get_proxy_config(store, sc[c].id))

\* a stop has returned Ok(true) although the worker it signalled is still running
C10_Witness ==
  \E c \in Callers : /\ sc[c].pc = "done" /\ sc[c].result = "Ok(true)"
                     /\ sc[c].id \in Ids
                     /\ WorkerAlive(sc[c].id)
                     /\ Some(wk[sc[c].id].pid) = sc[c].sent

C12_SpawnFailureLeavesRecordOnly ==
  \A i \in Ids : (st[i].pc = "err" /\ st[i].err = "spawn") =>
    /\ st[i].attempts = 0
    /\ st[i].probe = None
    /\ registry[i] = None
    /\ wk[i].pc = "none"
    /\ \A p \in Pids : procs[p] # i
    /\ get_proxy_config(store, i) = Some(NewConfig(i, st[i].req))
    /\ Unwrap(get_proxy_config(store, i)).pid = None

\* a start has returned the spawn error and its record is still in the store
C12_Witness ==
  \E i \in Ids : st[i].pc = "err" /\ st[i].err = "spawn"
                 /\ IsSome(get_proxy_config(store, i))

\* C13: a start reaches its spawn only with its record saved, the record is in the
\* store before and right after the spawn, and no worker exists for an identifier
\* whose start has not saved the record or has failed to save it.
C13_RecordBeforeSpawn ==
  \A i \in Ids :
    /\ st[i].pc = "saved" => IsSome(get_proxy_config(store, i)) /\ wk[i].pc = "none"
    /\ st[i].pc = "registered" => IsSome(get_proxy_config(store, i))
    /\ (st[i].pc = "idle" \/ (st[i].pc = "err" /\ st[i].err = "save")) => wk[i].pc = "none"

\* the worker has just been spawned and its record is in the store
C13_Witness ==
  \E i \in Ids : st[i].pc = "registered" /\ wk[i].pc = "spawned"
                 /\ get_proxy_config(store, i) = Some(NewConfig(i, st[i].req))

\* C14: whenever start returns success, the record it returns carries the pid the
\* launcher returned to that start call.
C14_SuccessCarriesSpawnedPid ==
  \A i \in Ids : st[i].pc = "ok" =>
    Unwrap(st[i].result).pid = Some(st[i].pid)

\* the call has ended in the readiness timeout
TimedOut(i) == st[i].pc = "err" /\ st[i].err = "timeout"

\* C15: every readiness-timeout error carries the identifier of its start call,
\* with the record found by the last get_proxy_config or without it.
C15_TimeoutNamesIdentifier ==
  \A i \in Ids : TimedOut(i) => IsSome(st[i].diag) /\ Unwrap(st[i].diag).id = i

\* a start has timed out with its record gone from the store
C15_Witness ==
  \E i \in Ids : TimedOut(i) /\ ~Unwrap(st[i].diag).found /\ Unwrap(st[i].diag).id = i

\* the last min(TailCount, n) lines of an n-line log, in their order
LogTail(lines) ==
  LET n == Len(lines)
      m == IF n < TailCount THEN n ELSE TailCount
  IN SubSeq(lines, n - m + 1, n)

\* C16: whenever start ends in a readiness timeout and a readable log file is
\* there, the error quotes exactly the last min(10, n) lines of the n-line log.
C16_TimeoutQuotesLogTail ==
  \A i \in Ids :
    (TimedOut(i) /\ Unwrap(st[i].diag).file.exists /\ Unwrap(st[i].diag).file.readable) =>
      /\ IsSome(Unwrap(st[i].diag).log)
      /\ Unwrap(Unwrap(st[i].diag).log).kind = "lines"
      /\ Unwrap(Unwrap(st[i].diag).log).lines = LogTail(Unwrap(st[i].diag).file.lines)

MaxAttemptsWindows == 150
MaxAttemptsUnix == 80

\* the polling budget in every state: never more than MaxAttempts failed checks; a
\* start that polls or succeeds has failed fewer (its successful check is at most
\* the MaxAttempts-th); the timeout error comes exactly with MaxAttempts failed checks
PollBudget ==
  \A i \in Ids :
    /\ st[i].attempts <= MaxAttempts
    /\ st[i].pc \in {"polling", "ok"} => st[i].attempts < MaxAttempts
    /\ TimedOut(i) <=> st[i].attempts = MaxAttempts

\* C18: every start call returns, the polling budget holds throughout, and the
\* budget of the Windows build is the larger one.
C18_StartTerminatesWithinBudget ==
  /\ MaxAttemptsWindows > MaxAttemptsUnix
  /\ []PollBudget
  /\ \A i \in Ids : InFlight(st[i]) ~> (st[i].pc = "returned")

\* a start has succeeded on its last permitted check
C18_Witness ==
  \E i \in Ids : st[i].pc = "ok" /\ st[i].attempts = MaxAttempts - 1

C20_InFlightStartIsInvisible ==
  \A i \in Ids : InFlight(st[i]) =>
    /\ sa.pc = "loop" => i \notin sa.listed
    /\ \A c \in Callers : sc[c].pc \in {"grace", "delete"} => sc[c].id # i

\* a step of the start call of identifier a (not the hand-over of its result)
StartStep(a) ==
  /\ st[a].pc # st'[a].pc \/ st[a].attempts # st'[a].attempts
  /\ st[a].pc \notin {"ok", "err"}

\* the worker of identifier a listens on the port of the record start returned
OwnWorkerListens(w, r) ==
  /\ w.pc \in {"bound", "written"}
  /\ Some(w.port) = Unwrap(r.result).local_port

\* C21: start calls for different identifiers are independent: a step of the start
\* of identifier a changes neither the record nor the registry entry of another
\* identifier, and when it ends in success that is the doing of a's own record and
\* worker: the worker of a is listening on the port of the returned record.
C21_StartsAreIndependent ==
  [][\A a \in Ids : StartStep(a) =>
       /\ \A b \in AllIds \ {a} : store'[b] = store[b]
       /\ \A b \in Ids \ {a} : registry'[b] = registry[b]
       /\ st'[a].pc = "ok" => OwnWorkerListens(wk'[a], st'[a])]_vars

\* caller 1 is in, or has just finished, the stop(id) it made after its start of id
\* had timed out
Abandoning(id) ==
  /\ sc[1].pc # "idle"
  /\ sc[1].id = id
  /\ sc[1].again
  /\ st[id].pc = "returned"
  /\ st[id].err = "timeout"

\* C22: the stop(id) that follows a start which ended in a readiness timeout sends
\* its signal to the pid that start had spawned, and when it returns it returns true
\* and the record is deleted.
C22_StopAfterTimeoutTearsDown ==
  \A id \in Ids : Abandoning(id) =>
    /\ sc[1].sent = Some(st[id].pid)
    /\ sc[1].pc = "done" => sc[1].result = "Ok(true)" /\ ~IsSome(store[id])

\* C23: a failed write of the record ends start at once.  After a failed first save
\* no process was spawned and nothing was registered; after a failed re-persist start
\* has its error without a single poll; and a start that is polling has saved the
\* pid: until its worker writes or a stop finds the pid, the record carries it.
C23_WriteFailureEndsStart ==
  \A i \in Ids :
    /\ (st[i].pc = "err" /\ st[i].err = "save") =>
         /\ st[i].pid = 0 /\ st[i].attempts = 0 /\ st[i].probe = None
         /\ wk[i].pc = "none"
         /\ registry[i] = None
         /\ \A p \in Pids : procs[p] # i
    /\ (st[i].pc = "err" /\ st[i].err = "persist") =>
         st[i].attempts = 0 /\ st[i].probe = None
    /\ (st[i].pc = "polling" /\ wk[i].pc = "spawned" /\ ~st[i].hit) =>
         /\ IsSome(get_proxy_config(store, i))
         /\ Unwrap(get_proxy_config(store, i)).pid = Some(st[i].pid)

\* the re-persist has failed: start has its error, the worker it spawned runs and is
\* registered, and the record is still the one of the first save
C23_Witness ==
  \E i \in Ids : /\ st[i].pc = "err" /\ st[i].err = "persist"
                 /\ WorkerAlive(i)
                 /\ registry[i] = Some(st[i].pid)
                 /\ get_proxy_config(store, i) = Some(NewConfig(i, st[i].req))

\* C24: a stop decides by the persisted record alone.  In the step in which stop(id)
\* looks the identifier up, it signals iff the record it finds carries a pid, the
\* signal goes to exactly that pid, and no process other than the one running as that
\* pid is touched; what the registry holds makes no difference.
C24_StopSignalsRecordedPid ==
  [][\A c \in Callers : (sc[c].pc = "idle" /\ sc'[c].pc # "idle") =>
       LET o == get_proxy_config(store, sc'[c].id)
       IN IF IsSome(o) /\ IsSome(Unwrap(o).pid)
            THEN /\ sc'[c].pc = "grace"
                 /\ sc'[c].sent = Unwrap(o).pid
                 /\ \A p \in Pids \ {Unwrap(Unwrap(o).pid)} : procs'[p] = procs[p]
            ELSE /\ sc'[c].pc = "done"
                 /\ sc'[c].sent = None
                 /\ procs' = procs]_vars

\* a stop has signalled the pid of the record while the registry had lost its entry
\* for the identifier
C24_Witness ==
  \E c \in Callers : /\ sc[c].pc = "grace"
                     /\ IsSome(sc[c].sent)
                     /\ registry[sc[c].id] = None

\* C25: the re-persist of the supervisor changes nothing but the pid of the record:
\* the local_port and local_url the record held before the write, the worker's
\* among them, are in the record after it.
C25_PersistChangesOnlyPid ==
  [][\A i \in Ids : (st[i].pc = "registered" /\ st'[i].pc = "polling") =>
       LET before == Unwrap(get_proxy_config(store, i))
           after == Unwrap(get_proxy_config(store', i))
       IN /\ after.pid = Some(st[i].pid)
          /\ after.local_port = before.local_port
          /\ after.local_url = before.local_url]_vars

\* C26: the process a stop(id) signals is the worker that start spawned for id, or no
\* process at all: no stop ever signals the worker of another identifier.
C26_StopSignalsOwnWorkerOnly ==
  \A c \in Callers : ~sc[c].stray

\* no start, stop or stop_all call is in flight
NoCallInFlight ==
  /\ Running = 0
  /\ \A c \in Callers : sc[c].pc \in {"idle", "done"}

\* C27: with no call in flight, every identifier the registry has an entry for has a
\* persisted record that carries a pid; and when a stop(id) has returned, with true
\* or with false, the registry has no entry for id.
C27_RegistryFollowsStore ==
  /\ NoCallInFlight =>
       \A i \in Ids : IsSome(registry[i]) =>
         /\ IsSome(get_proxy_config(store, i))
         /\ IsSome(Unwrap(get_proxy_config(store, i)).pid)
  /\ \A c \in Callers : (sc[c].pc = "done" /\ sc[c].id \in Ids) =>
       registry[sc[c].id] = None

\* C28: the registry and the store never disagree on a pid: when the registry maps an
\* identifier to a pid and the record of the identifier carries a pid, the two are
\* the same.
C28_RegistryAgreesWithRecord ==
  \A i \in Ids :
    LET o == get_proxy_config(store, i)
    IN (IsSome(registry[i]) /\ IsSome(o) /\ IsSome(Unwrap(o).pid)) =>
         registry[i] = Unwrap(o).pid

\* the registry and the record both name the pid of the running worker
C28_Witness ==
  \E i \in Ids :
    /\ WorkerAlive(i)
    /\ registry[i] = Some(wk[i].pid)
    /\ IsSome(get_proxy_config(store, i))
    /\ Unwrap(get_proxy_config(store, i)).pid = Some(wk[i].pid)

\* a step of the supervisor (not of a worker process) that puts a record for id
\* into the store
SupervisorWrites(id) ==
  /\ wk' = wk
  /\ IsSome(get_proxy_config(store', id))
  /\ get_proxy_config(store', id) # get_proxy_config(store, id)

\* a stop deletes the record of id
StopDeletes(id) ==
  \E c \in Callers : sc[c].pc = "delete" /\ sc'[c].pc = "done" /\ sc[c].id = id

\* the start of id has made the last of its two saves
PastWrites(r) == r.pc \in {"polling", "ok", "err", "returned"}

\* C29: once a stop has deleted the record of an identifier, no operation of the
\* supervisor writes a record for it again.  The supervisor writes a record only in
\* the two saves of start; when a stop deletes the record, the start of the
\* identifier is past both, and it never gets back before them.
C29_GoneIsTerminal ==
  [][\A id \in Ids :
       /\ SupervisorWrites(id) => ~PastWrites(st[id])
       /\ StopDeletes(id) => PastWrites(st[id])
       /\ PastWrites(st[id]) => PastWrites(st'[id])]_vars

\* a stop has deleted the record of a start that is still polling
C29_Witness ==
  \E id \in Ids : /\ st[id].pc = "polling" /\ st[id].hit
                  /\ ~IsSome(get_proxy_config(store, id))
                  /\ \A c \in Callers : sc[c].pc = "idle"

\* a call holds the guard only between its lock() and the end of the block, where it
\* is at no sleep and no other await, and no two calls hold it together
GuardOnlyInBlock ==
  /\ \A i \in Ids : st[i].guard => st[i].pc = "locked"
  /\ \A c \in Callers : sc[c].guard => sc[c].pc = "locked"
  /\ Cardinality({i \in Ids : st[i].guard}) + Cardinality({c \in Callers : sc[c].guard}) <= 1

\* C30: the lock of the registry is held only for a single insert or remove, never
\* across a suspension point, and no call waits for it forever: a start that has
\* spawned its worker gets the lock and registers the pid, and a stop whose grace
\* sleep is running gets the lock and goes on to its delete.
C30_LockIsShortAndFree ==
  /\ []GuardOnlyInBlock
  /\ \A i \in Ids : (st[i].pc = "spawned") ~> (st[i].pc = "registered")
  /\ \A c \in Callers : (sc[c].pc = "grace") ~> (sc[c].pc = "delete")

\* one stop holds the guard while another call is waiting for it
C30_Witness ==
  \E c \in Callers :
    /\ sc[c].guard
    /\ \/ \E d \in Callers \ {c} : sc[d].pc = "grace"
       \/ \E i \in Ids : st[i].pc = "spawned"

=============================================================================
